---- MODULE Spec2Model ----
(***************************************************************************)
(* Model of the shellpad editor (src/shellpad/main.py, class Editor): the  *)
(* line buffer and cursor, the undo/redo stacks, the real-time autosave    *)
(* bridge and the keystroke loop.                                          *)
(*                                                                         *)
(* A line is a sequence of one-character strings; a text (note body,       *)
(* clipboard content, saved content) is such a sequence that may also hold *)
(* the line break NL.                                                      *)
(***************************************************************************)
EXTENDS Integers, Sequences, FiniteSets, TLC

VARIABLES
    lines,      \* Editor.lines: sequence of lines
    cy,         \* Editor.cy: cursor row, 0-based
    cx,         \* Editor.cx: cursor column, 0-based
    undo,       \* Editor.undo: sequence of snapshots, most recent last
    redo,       \* Editor.redo: sequence of snapshots, most recent last
    realtime,   \* Editor.realtime
    saved,      \* the last text handed to autosave_cb (the host's note body)
    calls,      \* number of autosave_cb invocations made by the last handler
    pc,         \* "edit" while edit_loop waits for a key, "done" once it returned
    ret,        \* what edit_loop returned, NoReturn while it runs
    term,       \* stdscr.getmaxyx(): <<h, w>>
    view,       \* the last draw: Editor.view_top and where the cursor was put
    wrap,       \* the last call of _logical_to_visual_segments made on its own
    nb,         \* Notebook.notes: sequence of notes
    store,      \* the content of the notebook file, Absent when there is none
    selected,   \* Shellpad.selected: index (0-based) of the selected note
    copied,     \* Shellpad.internal_copy: <<>> for None, <<note>> otherwise
    trip,       \* history variable: the save / load round trip in progress
    chain,      \* history variable: the mutation / undo / redo chain in progress
    run         \* history variable: mutations and undos counted from the session start

vars == <<lines, cy, cx, undo, redo, realtime, saved, calls, pc, ret, term, view,
          wrap, nb, store, selected, copied, trip, chain, run>>

\* the notebook side, which an edit session changes through autosave_cb only
notebook == <<nb, store, trip>>

editor == <<lines, cy, cx, undo, redo, realtime, saved, calls, pc>>

-----------------------------------------------------------------------------
(* Bounds of the model. *)

\* characters (line breaks included) the typed / pasted input may grow the
\* buffer to
MaxChars == 3
\* snapshots on the undo stack up to which Spec keeps mutating
MaxHist == 2
\* mutations past the undo capacity that SpecHist counts
MaxOver == 1

\* the undo capacity of Editor._push_undo
UndoCap == 300

NL == "\n"
TAB == "\t"
Chars == {"a", " "}

-----------------------------------------------------------------------------
(* Python helpers. *)

Min(a, b) == IF a < b THEN a ELSE b
Max(a, b) == IF a > b THEN a ELSE b

\* s[i:j] of a Python sequence, 0-based, for 0 <= i and j <= len(s)
Slice(s, i, j) == IF j <= i THEN <<>> ELSE SubSeq(s, i + 1, j)

Front(s) == SubSeq(s, 1, Len(s) - 1)
Last(s) == s[Len(s)]

\* position (1-based) of the first NL of t from position i on, 0 when there
\* is none
FirstNL(t, i) ==
    LET found == {j \in i..Len(t) : t[j] = NL}
    IN  IF found = {} THEN 0
        ELSE CHOOSE j \in found : \A k \in found : j <= k

\* str.split('\n')
RECURSIVE Split(_)
Split(t) ==
    LET p == FirstNL(t, 1)
    IN  IF p = 0 THEN <<t>>
        ELSE <<SubSeq(t, 1, p - 1)>> \o Split(SubSeq(t, p + 1, Len(t)))

\* str.splitlines(), for texts whose only line break is NL
SplitLines(t) ==
    IF t = <<>> THEN <<>>
    ELSE LET parts == Split(t)
         IN  IF Last(parts) = <<>> THEN Front(parts) ELSE parts

\* '\n'.join(ls)
RECURSIVE Join(_)
Join(ls) ==
    IF Len(ls) = 0 THEN <<>>
    ELSE IF Len(ls) = 1 THEN ls[1]
    ELSE ls[1] \o <<NL>> \o Join(Tail(ls))

\* list.insert(i, x), 0-based, 0 <= i <= len(s)
InsertAt(s, i, x) == SubSeq(s, 1, i) \o <<x>> \o SubSeq(s, i + 1, Len(s))

\* list.pop(i), 0-based: the list that is left
RemoveAt(s, i) == SubSeq(s, 1, i) \o SubSeq(s, i + 2, Len(s))

\* the line at 0-based row y
Line(ls, y) == ls[y + 1]

SetLine(ls, y, l) == [ls EXCEPT ![y + 1] = l]

-----------------------------------------------------------------------------
(* The editor state that the methods compute on: a record of the fields    *)
(* they read and write.                                                    *)

Snapshot(ls, y, x) == [lines |-> ls, cy |-> y, cx |-> x]

State(ls, y, x, u, r, sv, n) ==
    [lines |-> ls, cy |-> y, cx |-> x, undo |-> u, redo |-> r, saved |-> sv, calls |-> n]

\* the state at the start of a handler: no autosave call made yet
Cur == State(lines, cy, cx, undo, redo, saved, 0)

\* Editor._push_undo, mutant: the oldest snapshot is never dropped
PushUndoNoDrop(s) ==
    [s EXCEPT !.undo = Append(s.undo, Snapshot(s.lines, s.cy, s.cx)),
              !.redo = <<>>]

\* Editor._push_undo, mutant: the redo stack is kept
PushUndoKeepRedo(s) ==
    LET u == Append(s.undo, Snapshot(s.lines, s.cy, s.cx))
    IN  [s EXCEPT !.undo = IF Len(u) > UndoCap THEN Tail(u) ELSE u]

\* Editor._push_undo, mutant: the oldest snapshot is dropped one entry early
PushUndoDropsAtCap(s) ==
    LET u == Append(s.undo, Snapshot(s.lines, s.cy, s.cx))
    IN  [s EXCEPT !.undo = IF Len(u) >= UndoCap THEN Tail(u) ELSE u,
                  !.redo = <<>>]

\* Editor._push_undo
PushUndo(s) ==
    LET u == Append(s.undo, Snapshot(s.lines, s.cy, s.cx))
    IN  [s EXCEPT !.undo = IF Len(u) > UndoCap THEN Tail(u) ELSE u,
                  !.redo = <<>>]

\* Editor._maybe_realtime_save, mutant: the realtime flag is not consulted
MaybeRealtimeSaveUngated(s) ==
    [s EXCEPT !.saved = Join(s.lines), !.calls = s.calls + 1]

\* Editor._maybe_realtime_save
MaybeRealtimeSave(s) ==
    IF realtime
    THEN [s EXCEPT !.saved = Join(s.lines), !.calls = s.calls + 1]
    ELSE s

\* Editor._clamp_cursor
ClampCursor(s) ==
    LET ls == IF s.lines = <<>> THEN << <<>> >> ELSE s.lines
        y  == Max(0, Min(s.cy, Len(ls) - 1))
        x  == Max(0, Min(s.cx, Len(Line(ls, y))))
    IN  [s EXCEPT !.lines = ls, !.cy = y, !.cx = x]

\* Editor._do_undo, mutant: the popped snapshot is restored, not the new top
DoUndoRestoresPopped(s) ==
    IF Len(s.undo) > 1
    THEN LET state == Last(s.undo)
         IN  MaybeRealtimeSave(ClampCursor(
                 [s EXCEPT !.undo = Front(s.undo),
                           !.redo = Append(s.redo, state),
                           !.lines = state.lines,
                           !.cy = state.cy,
                           !.cx = state.cx]))
    ELSE s

\* Editor._do_undo, mutant: the save is made outside the if
DoUndoAlwaysSaves(s) ==
    IF Len(s.undo) > 1
    THEN LET state == Last(s.undo)
             u     == Front(s.undo)
             top   == Last(u)
         IN  MaybeRealtimeSave(ClampCursor(
                 [s EXCEPT !.undo = u,
                           !.redo = Append(s.redo, state),
                           !.lines = top.lines,
                           !.cy = top.cy,
                           !.cx = top.cx]))
    ELSE MaybeRealtimeSave(s)

\* Editor._do_undo, mutant: the restored state is pushed as a new snapshot
DoUndoPushesSnapshot(s) ==
    IF Len(s.undo) > 1
    THEN LET state == Last(s.undo)
             u     == Front(s.undo)
             top   == Last(u)
         IN  MaybeRealtimeSave(PushUndo(ClampCursor(
                 [s EXCEPT !.undo = u,
                           !.redo = Append(s.redo, state),
                           !.lines = top.lines,
                           !.cy = top.cy,
                           !.cx = top.cx])))
    ELSE s

\* Editor._do_undo, mutant: the snapshot is moved to the redo stack and the
\* buffer stays as it is
DoUndoKeepsBuffer(s) ==
    IF Len(s.undo) > 1
    THEN MaybeRealtimeSave(
             [s EXCEPT !.undo = Front(s.undo),
                       !.redo = Append(s.redo, Last(s.undo))])
    ELSE s

\* Editor._do_undo
DoUndo(s) ==
    IF Len(s.undo) > 1
    THEN LET state == Last(s.undo)
             u     == Front(s.undo)
             top   == Last(u)
         IN  MaybeRealtimeSave(ClampCursor(
                 [s EXCEPT !.undo = u,
                           !.redo = Append(s.redo, state),
                           !.lines = top.lines,
                           !.cy = top.cy,
                           !.cx = top.cx]))
    ELSE s

\* Editor._do_redo, mutant: the popped snapshot is not put back on the undo stack
DoRedoNoPush(s) ==
    IF s.redo # <<>>
    THEN LET state == Last(s.redo)
         IN  MaybeRealtimeSave(ClampCursor(
                 [s EXCEPT !.redo = Front(s.redo),
                           !.lines = state.lines,
                           !.cy = state.cy,
                           !.cx = state.cx]))
    ELSE s

\* Editor._do_redo
DoRedo(s) ==
    IF s.redo # <<>>
    THEN LET state == Last(s.redo)
         IN  MaybeRealtimeSave(ClampCursor(
                 [s EXCEPT !.redo = Front(s.redo),
                           !.undo = Append(s.undo, state),
                           !.lines = state.lines,
                           !.cy = state.cy,
                           !.cx = state.cx]))
    ELSE s

\* Editor.insert_text, for a text t with t # "" (edit_loop passes no other:
\* "".splitlines() is empty and parts[0] would raise IndexError)
InsertText(s, t) ==
    LET cur    == Line(s.lines, s.cy)
        before == Slice(cur, 0, s.cx)
        after  == Slice(cur, s.cx, Len(cur))
        parts  == SplitLines(t)
        n      == Len(parts)
    IN  IF n = 1
        THEN MaybeRealtimeSave(PushUndo(
                 [s EXCEPT !.lines = SetLine(s.lines, s.cy, before \o parts[1] \o after),
                           !.cx = s.cx + Len(parts[1])]))
        ELSE LET ins    == SubSeq(s.lines, 1, s.cy)
                             \o <<before \o parts[1]>>
                             \o Tail(parts)
                             \o SubSeq(s.lines, s.cy + 2, Len(s.lines))
                 joined == SetLine(ins, s.cy + n - 1, Line(ins, s.cy + n - 1) \o after)
             IN  MaybeRealtimeSave(PushUndo(
                     [s EXCEPT !.lines = joined,
                               !.cy = s.cy + n - 1,
                               !.cx = Len(parts[n])]))

\* Editor.newline, mutant: an empty line is opened below the current line,
\* which is not split
NewlineBelow(s) ==
    MaybeRealtimeSave(PushUndo(
        [s EXCEPT !.lines = InsertAt(s.lines, s.cy + 1, <<>>),
                  !.cy = s.cy + 1,
                  !.cx = 0]))

\* Editor.newline
Newline(s) ==
    LET cur    == Line(s.lines, s.cy)
        before == Slice(cur, 0, s.cx)
        after  == Slice(cur, s.cx, Len(cur))
    IN  MaybeRealtimeSave(PushUndo(
            [s EXCEPT !.lines = InsertAt(SetLine(s.lines, s.cy, before), s.cy + 1, after),
                      !.cy = s.cy + 1,
                      !.cx = 0]))

\* Editor.backspace, mutant: the merge leaves the cursor at the end of the
\* merged line
BackspaceCursorAtEnd(s) ==
    IF s.cx > 0
    THEN LET cur == Line(s.lines, s.cy)
         IN  MaybeRealtimeSave(PushUndo(
                 [s EXCEPT !.lines = SetLine(s.lines, s.cy,
                                         Slice(cur, 0, s.cx - 1) \o Slice(cur, s.cx, Len(cur))),
                           !.cx = s.cx - 1]))
    ELSE IF s.cy > 0
    THEN LET prev == Line(s.lines, s.cy - 1)
             cur  == Line(s.lines, s.cy)
         IN  MaybeRealtimeSave(PushUndo(
                 [s EXCEPT !.lines = RemoveAt(SetLine(s.lines, s.cy - 1, prev \o cur), s.cy),
                           !.cy = s.cy - 1,
                           !.cx = Len(prev \o cur)]))
    ELSE s

\* Editor.backspace, mutant: the merge also runs on the first row, where
\* lines[cy - 1] is the last line, and removes the row
BackspaceFirstRow(s) ==
    IF s.cx > 0
    THEN LET cur == Line(s.lines, s.cy)
         IN  MaybeRealtimeSave(PushUndo(
                 [s EXCEPT !.lines = SetLine(s.lines, s.cy,
                                         Slice(cur, 0, s.cx - 1) \o Slice(cur, s.cx, Len(cur))),
                           !.cx = s.cx - 1]))
    ELSE LET py   == IF s.cy > 0 THEN s.cy - 1 ELSE Len(s.lines) - 1
             prev == Line(s.lines, py)
             cur  == Line(s.lines, s.cy)
         IN  MaybeRealtimeSave(PushUndo(
                 [s EXCEPT !.lines = RemoveAt(SetLine(s.lines, py, prev \o cur), s.cy),
                           !.cy = s.cy - 1,
                           !.cx = Len(prev)]))

\* Editor.backspace
Backspace(s) ==
    IF s.cx > 0
    THEN LET cur == Line(s.lines, s.cy)
         IN  MaybeRealtimeSave(PushUndo(
                 [s EXCEPT !.lines = SetLine(s.lines, s.cy,
                                         Slice(cur, 0, s.cx - 1) \o Slice(cur, s.cx, Len(cur))),
                           !.cx = s.cx - 1]))
    ELSE IF s.cy > 0
    THEN LET prev == Line(s.lines, s.cy - 1)
             cur  == Line(s.lines, s.cy)
         IN  MaybeRealtimeSave(PushUndo(
                 [s EXCEPT !.lines = RemoveAt(SetLine(s.lines, s.cy - 1, prev \o cur), s.cy),
                           !.cy = s.cy - 1,
                           !.cx = Len(prev)]))
    ELSE s

\* the first loop of delete_prev_word, mutant: it runs over tabs as well
RECURSIVE SkipSpacesAndTabs(_, _)
SkipSpacesAndTabs(line, pos) ==
    IF pos >= 0 /\ line[pos + 1] \in {" ", TAB} THEN SkipSpacesAndTabs(line, pos - 1) ELSE pos

\* the first loop of delete_prev_word: while pos >= 0 and line[pos] == ' '
RECURSIVE SkipSpaces(_, _)
SkipSpaces(line, pos) ==
    IF pos >= 0 /\ line[pos + 1] = " " THEN SkipSpaces(line, pos - 1) ELSE pos

\* the second loop of delete_prev_word: while pos >= 0 and line[pos] != ' '
RECURSIVE SkipWord(_, _)
SkipWord(line, pos) ==
    IF pos >= 0 /\ line[pos + 1] # " " THEN SkipWord(line, pos - 1) ELSE pos

\* Editor.delete_prev_word, mutant: the line merge pushes no snapshot
DeletePrevWordNoPushOnMerge(s) ==
    IF s.cx = 0
    THEN IF s.cy = 0
         THEN s
         ELSE LET prev == Line(s.lines, s.cy - 1)
                  cur  == Line(s.lines, s.cy)
              IN  MaybeRealtimeSave(
                      [s EXCEPT !.lines = RemoveAt(SetLine(s.lines, s.cy - 1, prev \o cur), s.cy),
                                !.cy = s.cy - 1,
                                !.cx = Len(prev)])
    ELSE LET line  == Line(s.lines, s.cy)
             new_x == SkipWord(line, SkipSpaces(line, s.cx - 1)) + 1
         IN  MaybeRealtimeSave(PushUndo(
                 [s EXCEPT !.lines = SetLine(s.lines, s.cy,
                                         Slice(line, 0, new_x) \o Slice(line, s.cx, Len(line))),
                           !.cx = new_x]))

\* Editor.delete_prev_word, mutant: at column 0 the redo stack survives
\* the line merge
DeletePrevWordKeepsRedo(s) ==
    IF s.cx = 0
    THEN IF s.cy = 0
         THEN s
         ELSE LET prev == Line(s.lines, s.cy - 1)
                  cur  == Line(s.lines, s.cy)
                  t    == MaybeRealtimeSave(PushUndo(
                              [s EXCEPT !.lines = RemoveAt(SetLine(s.lines, s.cy - 1, prev \o cur), s.cy),
                                        !.cy = s.cy - 1,
                                        !.cx = Len(prev)]))
              IN  [t EXCEPT !.redo = s.redo]
    ELSE LET line  == Line(s.lines, s.cy)
             new_x == SkipWord(line, SkipSpaces(line, s.cx - 1)) + 1
         IN  MaybeRealtimeSave(PushUndo(
                 [s EXCEPT !.lines = SetLine(s.lines, s.cy,
                                         Slice(line, 0, new_x) \o Slice(line, s.cx, Len(line))),
                           !.cx = new_x]))

\* Editor.delete_prev_word
DeletePrevWord(s) ==
    IF s.cx = 0
    THEN IF s.cy = 0
         THEN s
         ELSE LET prev == Line(s.lines, s.cy - 1)
                  cur  == Line(s.lines, s.cy)
              IN  MaybeRealtimeSave(PushUndo(
                      [s EXCEPT !.lines = RemoveAt(SetLine(s.lines, s.cy - 1, prev \o cur), s.cy),
                                !.cy = s.cy - 1,
                                !.cx = Len(prev)]))
    ELSE LET line  == Line(s.lines, s.cy)
             new_x == SkipWord(line, SkipSpaces(line, s.cx - 1)) + 1
         IN  MaybeRealtimeSave(PushUndo(
                 [s EXCEPT !.lines = SetLine(s.lines, s.cy,
                                         Slice(line, 0, new_x) \o Slice(line, s.cx, Len(line))),
                           !.cx = new_x]))

\* edit_loop, KEY_LEFT, mutant: the move is recorded as a snapshot
MoveLeftPushes(s) ==
    IF s.cx > 0 THEN PushUndo([s EXCEPT !.cx = s.cx - 1])
    ELSE IF s.cy > 0
    THEN PushUndo([s EXCEPT !.cy = s.cy - 1, !.cx = Len(Line(s.lines, s.cy - 1))])
    ELSE s

\* edit_loop, KEY_LEFT
MoveLeft(s) ==
    IF s.cx > 0 THEN [s EXCEPT !.cx = s.cx - 1]
    ELSE IF s.cy > 0 THEN [s EXCEPT !.cy = s.cy - 1, !.cx = Len(Line(s.lines, s.cy - 1))]
    ELSE s

\* edit_loop, KEY_RIGHT, mutant: at the end of a line the cursor moves to
\* the same column of the next row
MoveRightKeepsColumn(s) ==
    IF s.cx < Len(Line(s.lines, s.cy)) THEN [s EXCEPT !.cx = s.cx + 1]
    ELSE IF s.cy < Len(s.lines) - 1
    THEN [s EXCEPT !.cy = s.cy + 1, !.cx = Min(s.cx, Len(Line(s.lines, s.cy + 1)))]
    ELSE s

\* edit_loop, KEY_RIGHT
MoveRight(s) ==
    IF s.cx < Len(Line(s.lines, s.cy)) THEN [s EXCEPT !.cx = s.cx + 1]
    ELSE IF s.cy < Len(s.lines) - 1 THEN [s EXCEPT !.cy = s.cy + 1, !.cx = 0]
    ELSE s

\* edit_loop, KEY_UP, mutant: the column is not clamped to the target line
MoveUpNoClamp(s) ==
    IF s.cy > 0 THEN [s EXCEPT !.cy = s.cy - 1] ELSE s

\* edit_loop, KEY_UP
MoveUp(s) ==
    IF s.cy > 0
    THEN [s EXCEPT !.cy = s.cy - 1, !.cx = Min(s.cx, Len(Line(s.lines, s.cy - 1)))]
    ELSE s

\* edit_loop, KEY_DOWN
MoveDown(s) ==
    IF s.cy < Len(s.lines) - 1
    THEN [s EXCEPT !.cy = s.cy + 1, !.cx = Min(s.cx, Len(Line(s.lines, s.cy + 1)))]
    ELSE s

\* edit_loop, KEY_HOME
MoveHome(s) == [s EXCEPT !.cx = 0]

\* edit_loop, KEY_END
MoveEnd(s) == [s EXCEPT !.cx = Len(Line(s.lines, s.cy))]

-----------------------------------------------------------------------------
(* Drawing: the visual layout of Editor.draw. *)

\* Editor._logical_to_visual_segments, mutant: the chunks overlap by one column
SegmentsOverlapping(text, width) ==
    IF text = <<>> THEN << [text |-> <<>>, start |-> 0] >>
    ELSE [k \in 1..((Len(text) + width - 1) \div width) |->
             [text  |-> Slice(text, Max(0, (k - 1) * width - 1), Min(Len(text), k * width)),
              start |-> (k - 1) * width]]

\* the while loop of _logical_to_visual_segments from column start on
RECURSIVE SegmentsFrom(_, _, _)
SegmentsFrom(text, width, start) ==
    IF start < Len(text)
    THEN << [text  |-> Slice(text, start, Min(Len(text), start + width)),
             start |-> start] >> \o SegmentsFrom(text, width, start + width)
    ELSE <<>>

\* Editor._logical_to_visual_segments
Segments(text, width) ==
    IF text = <<>> THEN << [text |-> <<>>, start |-> 0] >>
    ELSE SegmentsFrom(text, width, 0)

\* the list `visual` of draw: the segments of lines li, li + 1, ... in order,
\* each with its logical row
RECURSIVE Visual(_, _, _)
Visual(ls, width, li) ==
    IF li >= Len(ls) THEN <<>>
    ELSE LET segs == Segments(Line(ls, li), width)
         IN  [k \in 1..Len(segs) |->
                 [li |-> li, start |-> segs[k].start, text |-> segs[k].text]]
             \o Visual(ls, width, li + 1)

\* the first loop of draw over visual: the index (0-based) of the first
\* segment of row y whose inclusive range holds x, -1 when there is none
RECURSIVE FirstMatch(_, _, _, _)
FirstMatch(visual, y, x, vi) ==
    IF vi >= Len(visual) THEN -1
    ELSE LET e == visual[vi + 1]
         IN  IF e.li = y /\ e.start <= x /\ x <= e.start + Len(e.text)
             THEN vi
             ELSE FirstMatch(visual, y, x, vi + 1)

\* the second loop of draw over visual: the index of the last segment of
\* row y, -1 when there is none
RECURSIVE LastOfRow(_, _, _)
LastOfRow(visual, y, vi) ==
    IF vi < 0 THEN -1
    ELSE IF visual[vi + 1].li = y THEN vi
    ELSE LastOfRow(visual, y, vi - 1)

\* the geometry of draw for a terminal of h rows and w columns
TextY == 2
TextX == 3
TextH(h) == Max(6, h - 4) - 2
TextW(w) == Max(10, Max(40, w - 2) - 4)

\* Editor.draw, mutant: the cursor is scrolled to one row below the viewport
DrawScrollsShort(ls, y, x, size) ==
    LET text_h == TextH(size[1])
        text_w == TextW(size[2])
        visual == Visual(ls, text_w, 0)
        found  == FirstMatch(visual, y, x, 0)
        last   == LastOfRow(visual, y, Len(visual) - 1)
        row    == IF found >= 0 THEN found ELSE IF last >= 0 THEN last ELSE 0
        col    == IF found >= 0 THEN x - visual[found + 1].start
                  ELSE IF last >= 0 THEN Len(visual[last + 1].text) ELSE 0
        top    == Max(0, row - text_h)
        scr_y  == TextY + (row - top)
        scr_x  == TextX + col
    IN  [top |-> top, row |-> row, col |-> col, scr_y |-> scr_y, scr_x |-> scr_x,
         sy |-> Min(Max(TextY, scr_y), TextY + text_h - 1),
         sx |-> Min(Max(TextX, scr_x), TextX + text_w - 1),
         text_h |-> text_h, text_w |-> text_w]

\* Editor.draw: view_top (top), the cursor's visual row and column, its
\* screen coordinates before (scr_y, scr_x) and after (sy, sx) the clamp
Draw(ls, y, x, size) ==
    LET text_h == TextH(size[1])
        text_w == TextW(size[2])
        visual == Visual(ls, text_w, 0)
        found  == FirstMatch(visual, y, x, 0)
        last   == LastOfRow(visual, y, Len(visual) - 1)
        row    == IF found >= 0 THEN found ELSE IF last >= 0 THEN last ELSE 0
        col    == IF found >= 0 THEN x - visual[found + 1].start
                  ELSE IF last >= 0 THEN Len(visual[last + 1].text) ELSE 0
        top    == Max(0, row - (text_h - 1))
        scr_y  == TextY + (row - top)
        scr_x  == TextX + col
    IN  [top |-> top, row |-> row, col |-> col, scr_y |-> scr_y, scr_x |-> scr_x,
         sy |-> Min(Max(TextY, scr_y), TextY + text_h - 1),
         sx |-> Min(Max(TextX, scr_x), TextX + text_w - 1),
         text_h |-> text_h, text_w |-> text_w]

-----------------------------------------------------------------------------
(* The notebook file: Notebook.load and Notebook.save.  In titles, bodies  *)
(* and file contents an element of a text is " ", NL, "#" or a word: a run *)
(* of characters that holds neither whitespace nor "#".                    *)

Absent == "absent"

IsSpace(c) == c \in {" ", TAB, NL}

\* str.rstrip()
RECURSIVE RStrip(_)
RStrip(t) ==
    IF t # <<>> /\ IsSpace(Last(t)) THEN RStrip(Front(t)) ELSE t

\* str.lstrip()
RECURSIVE LStrip(_)
LStrip(t) ==
    IF t # <<>> /\ IsSpace(Head(t)) THEN LStrip(Tail(t)) ELSE t

\* str.strip()
Strip(t) == RStrip(LStrip(t))

Note(title, body) == [title |-> title, body |-> body]

\* Notebook.H1.match(ln): '#', then whitespace
H1Matches(ln) == Len(ln) >= 2 /\ ln[1] = "#" /\ IsSpace(ln[2])

\* m.group(1) of a match of H1: what follows the whitespace after '#'
H1Group(ln) == LStrip(Tail(ln))

\* the note of the welcome notebook, load line 53
WelcomeNote ==
    Note(<<"Welcome", " ", "to", " ", "Shellpad">>,
         <<"This", " ", "is", " ", "your", " ", "first", " ", "note.", NL, NL,
           "[", " ", "]", " ", "Try", " ", "a", " ", "todo", NL,
           "[", "x", "]", " ", "Done", " ", "task">>)

\* the list `out` of save for the notes from the i-th on
RECURSIVE SaveOut(_, _)
SaveOut(notes, i) ==
    IF i > Len(notes) THEN <<>>
    ELSE << <<"#", " ">> \o notes[i].title >>
         \o (IF notes[i].body # <<>> THEN << RStrip(notes[i].body) >> ELSE <<>>)
         \o << <<>> >>
         \o SaveOut(notes, i + 1)

\* Notebook.save, mutant: the bodies are stripped on both sides
RECURSIVE SaveOutStripped(_, _)
SaveOutStripped(notes, i) ==
    IF i > Len(notes) THEN <<>>
    ELSE << <<"#", " ">> \o notes[i].title >>
         \o (IF notes[i].body # <<>> THEN << Strip(notes[i].body) >> ELSE <<>>)
         \o << <<>> >>
         \o SaveOutStripped(notes, i + 1)

SaveStripsBodies(notes) == RStrip(Join(SaveOutStripped(notes, 1))) \o <<NL>>

\* Notebook.save: the text written to the file
Save(notes) == RStrip(Join(SaveOut(notes, 1))) \o <<NL>>

\* the loop of load over the lines from the i-th on; cur.open is
\* `cur_t is not None`
RECURSIVE LoadLoop(_, _, _, _)
LoadLoop(lns, i, notes, cur) ==
    IF i > Len(lns)
    THEN IF cur.open
         THEN Append(notes, Note(cur.title, RStrip(Join(cur.lines))))
         ELSE notes
    ELSE IF H1Matches(lns[i])
    THEN LoadLoop(lns, i + 1,
                  IF cur.open
                  THEN Append(notes, Note(cur.title, RStrip(Join(cur.lines))))
                  ELSE notes,
                  [open |-> TRUE, title |-> Strip(H1Group(lns[i])), lines |-> <<>>])
    ELSE IF cur.open
    THEN LoadLoop(lns, i + 1, notes, [cur EXCEPT !.lines = Append(cur.lines, lns[i])])
    ELSE LoadLoop(lns, i + 1, notes, cur)

\* Notebook.load of a file that exists: the notes parsed from its text
Parse(text) ==
    LoadLoop(SplitLines(text), 1, <<>>, [open |-> FALSE, title |-> <<>>, lines |-> <<>>])

\* Notebook.load: the notes and the file it leaves
Load(file) ==
    IF file = Absent
    THEN [notes |-> <<WelcomeNote>>, file |-> Save(<<WelcomeNote>>)]
    ELSE [notes |-> Parse(file), file |-> file]

-----------------------------------------------------------------------------
(* Inputs. *)

\* the note bodies a session is constructed on: "", "a", "a \n", "\na"
Bodies == {<<>>, <<"a">>, <<"a", " ", NL>>, <<NL, "a">>}

\* what paste_from_system_clipboard returns ("" when the clipboard is empty
\* or unavailable): "", "\n", "a\n", "\na", " \n\n"
Pastes == {<<>>, <<NL>>, <<"a", NL>>, <<NL, "a">>, <<" ", NL, NL>>}

\* the buffer and the undo stack of s are within the bounds of the model
Fits(s) == Len(Join(s.lines)) <= MaxChars /\ Len(s.undo) <= MaxHist

-----------------------------------------------------------------------------
(* History variables. *)

NoSnapshot == Snapshot(<<>>, 0, 0)

\* chain.op / chain.acted: the last key handled and whether its handler
\* changed the editor's stacks; chain.stage: "m" right after a mutation that
\* pushed a snapshot, "mu" after an undo that directly followed it, "mur"
\* after a redo that directly followed that undo, with the buffer and cursor
\* before the mutation (pre), the top of the undo stack before it (top), the
\* buffer and cursor after it (post), the undo stack after it (postUndo) and
\* the length of the redo stack before it (preRedo); chain.text: the text
\* that was handed to insert_text, when the key was a paste
NoChain(op, acted) ==
    [op |-> op, acted |-> acted, stage |-> "none", pre |-> NoSnapshot,
     top |-> NoSnapshot, post |-> NoSnapshot, postUndo |-> <<>>, preRedo |-> 0,
     text |-> <<>>]

\* chain after a mutating key op whose handler pushed a snapshot or not
TrackMutation(op, acted) ==
    chain' = IF acted
             THEN [op |-> op, acted |-> TRUE, stage |-> "m",
                   pre |-> Snapshot(lines, cy, cx), top |-> Last(undo),
                   post |-> Snapshot(lines', cy', cx'), postUndo |-> undo',
                   preRedo |-> Len(redo), text |-> <<>>]
             ELSE NoChain(op, FALSE)

\* chain after a paste that handed the text t to insert_text
TrackInsert(op, t) ==
    chain' = [op |-> op, acted |-> TRUE, stage |-> "m",
              pre |-> Snapshot(lines, cy, cx), top |-> Last(undo),
              post |-> Snapshot(lines', cy', cx'), postUndo |-> undo',
              preRedo |-> Len(redo), text |-> t]

TrackUndo ==
    chain' = IF chain.stage = "m"
             THEN [chain EXCEPT !.op = "undo", !.acted = TRUE, !.stage = "mu"]
             ELSE NoChain("undo", Len(undo) > 1)

TrackRedo ==
    chain' = IF chain.stage = "mu"
             THEN [chain EXCEPT !.op = "redo", !.acted = TRUE, !.stage = "mur"]
             ELSE NoChain("redo", redo # <<>>)

TrackOther(op) == chain' = NoChain(op, FALSE)

\* run.muts: the mutations made since the session started, as long as no
\* undo came in between (counted up to UndoCap + MaxOver); run.undos: the
\* effective undos that directly followed them; run.live: no redo and no
\* later mutation has ended that scenario; run.op: what the last key did
\* ("noop" for an undo or redo past the available history)
DeadRun(op) == [live |-> FALSE, muts |-> 0, undos |-> 0, op |-> op]

RunMutation ==
    run' = IF run.live /\ run.undos = 0
           THEN [run EXCEPT !.muts = Min(run.muts + 1, UndoCap + MaxOver), !.op = "mutation"]
           ELSE DeadRun("mutation")

RunUndo ==
    run' = IF run.live /\ Len(undo) > 1
           THEN [run EXCEPT !.undos = run.undos + 1, !.op = "undo"]
           ELSE [run EXCEPT !.op = IF Len(undo) > 1 THEN "undo" ELSE "noop"]

RunRedo == run' = IF redo # <<>> THEN DeadRun("redo") ELSE [run EXCEPT !.op = "noop"]

-----------------------------------------------------------------------------
(* The session. *)

\* autosave_cb of open_editor, for the selected note (the first):
\* the note gets the text as its body; Apply and KeyExit save the notebook
AutosaveCb(notes, text) == [notes EXCEPT ![1].body = text]

\* the handler's result becomes the editor's state, the notebook gets what
\* the handler's autosave call handed over, and the loop draws again
Apply(s) ==
    /\ lines' = s.lines
    /\ cy' = s.cy
    /\ cx' = s.cx
    /\ undo' = s.undo
    /\ redo' = s.redo
    /\ saved' = s.saved
    /\ calls' = s.calls
    /\ nb' = (IF s.calls > 0 THEN AutosaveCb(nb, s.saved) ELSE nb)
    /\ store' = (IF s.calls > 0 THEN Save(nb') ELSE store)
    /\ view' = Draw(s.lines, s.cy, s.cx, term)
    /\ UNCHANGED <<realtime, pc, ret, term, wrap, selected, copied, trip>>

\* Editor.__init__ on a note with this body
Construct(body) ==
    LET ls == IF body # <<>> THEN Split(body) ELSE << <<>> >>
        y  == Len(ls) - 1
        x  == IF ls # <<>> THEN Len(Line(ls, y)) ELSE 0
    IN  PushUndo(State(ls, y, x, <<>>, <<>>, body, 0))

\* edit_loop entered: the _clamp_cursor before the first draw
Start(body) == ClampCursor(Construct(body))

NoReturn == <<"none">>

NoWrap == [text |-> <<>>, width |-> 0, segs |-> <<>>]

NoTrip == [stage |-> "none", notes |-> <<>>, had |-> Absent]

\* a terminal of 24 rows and 80 columns
StdSize == <<24, 80>>

\* open_editor on a notebook whose selected note has this body, in a
\* terminal of this size: the editor is constructed and edit_loop has drawn
\* for the first time
InitSession(body, rt, size) ==
    LET s == Start(body)
    IN  /\ lines = s.lines
        /\ cy = s.cy
        /\ cx = s.cx
        /\ undo = s.undo
        /\ redo = s.redo
        /\ saved = s.saved
        /\ calls = 0
        /\ realtime = rt
        /\ pc = "edit"
        /\ ret = NoReturn
        /\ term = size
        /\ view = Draw(s.lines, s.cy, s.cx, size)
        /\ wrap = NoWrap
        /\ nb = << Note(<<"t">>, body) >>
        /\ store = Save(nb)
        /\ selected = 0
        /\ copied = <<>>
        /\ trip = NoTrip
        /\ chain = NoChain("init", FALSE)
        /\ run = [live |-> TRUE, muts |-> 0, undos |-> 0, op |-> "init"]

InitWith(body, rt) == InitSession(body, rt, StdSize)

Init == \E body \in Bodies, rt \in BOOLEAN : InitWith(body, rt)

\* k == 27, mutant: the final save is made only when real-time save is on
KeyExitGated ==
    /\ pc = "edit"
    /\ pc' = "done"
    /\ saved' = (IF realtime THEN Join(lines) ELSE saved)
    /\ calls' = (IF realtime THEN 1 ELSE 0)
    /\ ret' = Join(lines)
    /\ nb' = AutosaveCb(nb, saved')
    /\ store' = Save(nb')
    /\ TrackOther("exit")
    /\ UNCHANGED <<lines, cy, cx, undo, redo, realtime, term, view, wrap, selected, copied,
                   trip, run>>

\* k == 27: the final save and the return; open_editor stores the returned
\* text as the note's body and saves the notebook
KeyExit ==
    /\ pc = "edit"
    /\ pc' = "done"
    /\ saved' = Join(lines)
    /\ calls' = 1
    /\ ret' = Join(lines)
    /\ nb' = AutosaveCb(nb, ret')
    /\ store' = Save(nb')
    /\ TrackOther("exit")
    /\ UNCHANGED <<lines, cy, cx, undo, redo, realtime, term, view, wrap, selected, copied,
                   trip, run>>

\* k == 26
KeyUndo ==
    /\ pc = "edit"
    /\ Apply(DoUndo(Cur))
    /\ TrackUndo
    /\ UNCHANGED run

\* k == 18
KeyRedo ==
    /\ pc = "edit"
    /\ Apply(DoRedo(Cur))
    /\ TrackRedo
    /\ UNCHANGED run

\* k == 22
KeyPaste ==
    /\ pc = "edit"
    /\ \E pasted \in Pastes :
          IF pasted # <<>>
          THEN /\ Fits(InsertText(Cur, pasted))
               /\ Apply(InsertText(Cur, pasted))
               /\ TrackInsert("paste", pasted)
          ELSE /\ Apply(Cur)
               /\ TrackOther("paste_empty")
    /\ UNCHANGED run

\* k == 23
KeyDeleteWord ==
    /\ pc = "edit"
    /\ Fits(DeletePrevWord(Cur))
    /\ Apply(DeletePrevWord(Cur))
    /\ TrackMutation("delete_prev_word", cx > 0 \/ cy > 0)
    /\ UNCHANGED run

\* k in (10, 13)
KeyNewline ==
    /\ pc = "edit"
    /\ Fits(Newline(Cur))
    /\ Apply(Newline(Cur))
    /\ TrackMutation("newline", TRUE)
    /\ UNCHANGED run

\* k in (127, 8, KEY_BACKSPACE)
KeyBackspace ==
    /\ pc = "edit"
    /\ Fits(Backspace(Cur))
    /\ Apply(Backspace(Cur))
    /\ TrackMutation("backspace", cx > 0 \/ cy > 0)
    /\ UNCHANGED run

\* 32 <= k <= 126
KeyChar ==
    /\ pc = "edit"
    /\ \E c \in Chars :
          /\ Fits(InsertText(Cur, <<c>>))
          /\ Apply(InsertText(Cur, <<c>>))
    /\ TrackMutation("insert", TRUE)
    /\ UNCHANGED run

KeyLeft == pc = "edit" /\ Apply(MoveLeft(Cur)) /\ TrackOther("move") /\ UNCHANGED run
KeyRight == pc = "edit" /\ Apply(MoveRight(Cur)) /\ TrackOther("move") /\ UNCHANGED run
KeyUp == pc = "edit" /\ Apply(MoveUp(Cur)) /\ TrackOther("move") /\ UNCHANGED run
KeyDown == pc = "edit" /\ Apply(MoveDown(Cur)) /\ TrackOther("move") /\ UNCHANGED run
KeyHome == pc = "edit" /\ Apply(MoveHome(Cur)) /\ TrackOther("move") /\ UNCHANGED run
KeyEnd == pc = "edit" /\ Apply(MoveEnd(Cur)) /\ TrackOther("move") /\ UNCHANGED run

\* k == 15 (the URL under the cursor is opened outside the editor) and every
\* key the loop does not dispatch: the loop draws again
KeyIgnored == pc = "edit" /\ Apply(Cur) /\ TrackOther("ignored") /\ UNCHANGED run

Next ==
    \/ KeyExit
    \/ KeyUndo
    \/ KeyRedo
    \/ KeyPaste
    \/ KeyDeleteWord
    \/ KeyNewline
    \/ KeyBackspace
    \/ KeyChar
    \/ KeyLeft
    \/ KeyRight
    \/ KeyUp
    \/ KeyDown
    \/ KeyHome
    \/ KeyEnd
    \/ KeyIgnored

Spec == Init /\ [][Next]_vars

-----------------------------------------------------------------------------
(* A long session on an empty note: the user types "a" on the empty line   *)
(* or erases it again, and undoes and redoes at will.  The buffer stays    *)
(* one character long, so the undo stack can fill to its capacity.         *)

InitHist == \E rt \in BOOLEAN : InitWith(<<>>, rt)

HistType ==
    /\ pc = "edit"
    /\ Line(lines, cy) = <<>>
    /\ Apply(InsertText(Cur, <<"a">>))
    /\ RunMutation
    /\ UNCHANGED chain

HistErase ==
    /\ pc = "edit"
    /\ cx > 0
    /\ Apply(Backspace(Cur))
    /\ RunMutation
    /\ UNCHANGED chain

HistUndo ==
    /\ pc = "edit"
    /\ Apply(DoUndo(Cur))
    /\ RunUndo
    /\ UNCHANGED chain

HistRedo ==
    /\ pc = "edit"
    /\ Apply(DoRedo(Cur))
    /\ RunRedo
    /\ UNCHANGED chain

NextHist == HistType \/ HistErase \/ HistUndo \/ HistRedo

SpecHist == InitHist /\ [][NextHist]_vars

-----------------------------------------------------------------------------
(* Deletions on longer lines: a session on a note whose body is any text  *)
(* of at most MaxWord characters over a letter, the space, the tab and the *)
(* line break, or one of two longer texts; the user moves the cursor and   *)
(* deletes characters and words, at most MaxDel times.                     *)

MaxWord == 3
MaxDel == 2

DelChars == {"a", " ", TAB, NL}

Texts(S, n) == UNION {[1..k -> S] : k \in 0..n}

HelloWorld == <<"h", "e", "l", "l", "o", " ", " ", " ", "w", "o", "r", "l", "d">>

AbcDef == <<"a", "b", "c", NL, "d", "e", "f">>

DeleteBodies == Texts(DelChars, MaxWord) \cup {HelloWorld, AbcDef}

InitDelete == \E body \in DeleteBodies, rt \in BOOLEAN : InitWith(body, rt)

\* k == 23
DelWord ==
    /\ pc = "edit"
    /\ Len(undo) <= MaxDel
    /\ Apply(DeletePrevWord(Cur))
    /\ TrackMutation("delete_prev_word", cx > 0 \/ cy > 0)
    /\ UNCHANGED run

\* k in (127, 8, KEY_BACKSPACE)
DelBackspace ==
    /\ pc = "edit"
    /\ Len(undo) <= MaxDel
    /\ Apply(Backspace(Cur))
    /\ TrackMutation("backspace", cx > 0 \/ cy > 0)
    /\ UNCHANGED run

NextDelete ==
    \/ DelWord
    \/ DelBackspace
    \/ KeyLeft
    \/ KeyRight
    \/ KeyUp
    \/ KeyDown
    \/ KeyHome
    \/ KeyEnd

SpecDelete == InitDelete /\ [][NextDelete]_vars

-----------------------------------------------------------------------------
(* Splitting and merging lines: a session on a note whose body is any text *)
(* of at most MaxWord characters over a letter and the line break; the     *)
(* user moves the cursor, presses Enter and presses backspace,             *)
(* at most MaxDel times together.                                          *)

SplitChars == {"a", NL}

InitSplit == \E body \in Texts(SplitChars, MaxWord) : InitWith(body, FALSE)

\* k in (10, 13)
SplitNewline ==
    /\ pc = "edit"
    /\ Len(undo) <= MaxDel
    /\ Apply(Newline(Cur))
    /\ TrackMutation("newline", TRUE)
    /\ UNCHANGED run

\* k in (127, 8, KEY_BACKSPACE)
SplitBackspace ==
    /\ pc = "edit"
    /\ Len(undo) <= MaxDel
    /\ Apply(Backspace(Cur))
    /\ TrackMutation("backspace", cx > 0 \/ cy > 0)
    /\ UNCHANGED run

NextSplit ==
    \/ SplitNewline
    \/ SplitBackspace
    \/ KeyLeft
    \/ KeyRight
    \/ KeyUp
    \/ KeyDown
    \/ KeyHome
    \/ KeyEnd

SpecSplit == InitSplit /\ [][NextSplit]_vars

-----------------------------------------------------------------------------
(* Walking through the buffer: a session on a note whose body is any text  *)
(* of at most MaxWord characters; the user presses the left and the right  *)
(* arrow key.  chain.op tells which one was last and chain.pre where the   *)
(* cursor was before it.                                                   *)

InitMove == \E body \in Texts(DelChars, MaxWord) : InitWith(body, FALSE)

\* chain after an arrow key
TrackArrow(op) == chain' = [NoChain(op, FALSE) EXCEPT !.pre = Snapshot(lines, cy, cx)]

\* k == KEY_LEFT
GoLeft ==
    /\ pc = "edit"
    /\ Apply(MoveLeft(Cur))
    /\ TrackArrow("left")
    /\ UNCHANGED run

\* k == KEY_RIGHT
GoRight ==
    /\ pc = "edit"
    /\ Apply(MoveRight(Cur))
    /\ TrackArrow("right")
    /\ UNCHANGED run

NextMove == GoLeft \/ GoRight

SpecMove == InitMove /\ [][NextMove]_vars

-----------------------------------------------------------------------------
(* The picture: a session on a note of at most MaxLines lines of given     *)
(* lengths, in a terminal of one of three sizes; the user moves the cursor *)
(* and resizes the terminal, and every key draws again.  What draw         *)
(* computes depends on the lines, the cursor and the terminal size only.   *)

MaxLines == 2

\* a line of n letters
Rep(n) == [i \in 1..n |-> <<"a", "b", "c">>[(i % 3) + 1]]

\* line lengths below, at and above the text widths 36 and 37 of the sizes
LineLens == {0, 36, 37, 72, 108}

ViewBodies ==
    UNION {{Join([i \in 1..n |-> Rep(f[i])]) : f \in [1..n -> LineLens]} : n \in 1..MaxLines}

\* terminals <<rows, columns>>: text areas of 4 x 36, 4 x 37 and 18 x 74
Sizes == {<<8, 40>>, <<10, 43>>, StdSize}

InitView == \E body \in ViewBodies, size \in Sizes : InitSession(body, FALSE, size)

\* KEY_RESIZE, a key the loop does not dispatch: the loop draws again, in
\* the terminal's new size
Resize ==
    /\ pc = "edit"
    /\ \E size \in Sizes :
          /\ term' = size
          /\ view' = Draw(lines, cy, cx, size)
    /\ calls' = 0
    /\ TrackOther("ignored")
    /\ UNCHANGED <<lines, cy, cx, undo, redo, realtime, saved, pc, ret, wrap, nb, store,
                   selected, copied, trip, run>>

NextView ==
    \/ Resize
    \/ KeyLeft
    \/ KeyRight
    \/ KeyUp
    \/ KeyDown
    \/ KeyHome
    \/ KeyEnd

SpecView == InitView /\ [][NextView]_vars

-----------------------------------------------------------------------------
(* The notebook file: no note is open in the editor; the notebook holds    *)
(* any sequence of at most MaxNotes notes, or nothing yet while the file   *)
(* is missing or holds some text; it is saved and loaded at will.          *)

MaxNotes == 2

StoreTitles ==
    {<<"a">>, <<" ", "a">>, <<"a", " ">>, <<" ">>, <<"#">>, <<"a", NL, "a">>}

StoreBodies ==
    {<<>>, <<"a">>, <<"a", " ">>, <<"a", NL>>, <<NL, "a">>, <<" ">>, <<"#", " ", "a">>}

StoreNotes == {Note(t, b) : t \in StoreTitles, b \in StoreBodies}

NoteSeqs == UNION {[1..n -> StoreNotes] : n \in 0..MaxNotes}

\* what the file may hold when the program starts: nothing at all, the
\* empty text, a blank line, text without a heading, one note, and a note
\* after a line that belongs to none
StoreFiles ==
    {Absent, <<>>, <<NL>>, <<"a", NL>>, <<"#", "a", NL>>,
     <<"#", " ", "a", NL, "a", NL>>, <<"a", NL, "#", " ", "a", NL>>}

\* no edit session runs
NoSession ==
    /\ lines = << <<>> >>
    /\ cy = 0
    /\ cx = 0
    /\ undo = <<>>
    /\ redo = <<>>
    /\ realtime = FALSE
    /\ saved = <<>>
    /\ calls = 0
    /\ pc = "list"
    /\ ret = NoReturn
    /\ term = StdSize
    /\ view = Draw(lines, cy, cx, term)
    /\ wrap = NoWrap
    /\ chain = NoChain("init", FALSE)
    /\ run = DeadRun("init")

InitStore ==
    /\ NoSession
    /\ \/ nb \in NoteSeqs /\ store = Absent
       \/ nb = <<>> /\ store \in StoreFiles
    /\ selected = 0
    /\ copied = <<>>
    /\ trip = NoTrip

\* Notebook.save
StoreSave ==
    /\ pc = "list"
    /\ store' = Save(nb)
    /\ trip' = [stage |-> "saved", notes |-> nb, had |-> Absent]
    /\ UNCHANGED <<lines, cy, cx, undo, redo, realtime, saved, calls, pc, ret, term, view,
                   wrap, nb, selected, copied, chain, run>>

\* Notebook.load; trip tells whether it directly follows a save of
\* trip.notes ("roundtrip") or not ("loaded", of the file trip.had)
StoreLoad ==
    /\ pc = "list"
    /\ nb' = Load(store).notes
    /\ store' = Load(store).file
    /\ trip' = IF trip.stage = "saved"
               THEN [trip EXCEPT !.stage = "roundtrip"]
               ELSE [stage |-> "loaded", notes |-> <<>>, had |-> store]
    /\ UNCHANGED <<lines, cy, cx, undo, redo, realtime, saved, calls, pc, ret, term, view,
                   wrap, selected, copied, chain, run>>

NextStore == StoreSave \/ StoreLoad

SpecStore == InitStore /\ [][NextStore]_vars

-----------------------------------------------------------------------------
(* The list view: Shellpad.handle_input on a notebook loaded from the      *)
(* file.  An index into the note list that is out of range raises          *)
(* IndexError, which nothing catches: pc becomes "crashed".  The notebook  *)
(* holds at most MaxNotes notes, a title or a body at most MaxChars        *)
(* elements.                                                               *)

ListTitles == {<<"a">>, <<"b">>}

\* what the editor returns for the body of the note that was opened
ListBodies == {<<>>, <<"a">>}

\* what paste_from_system_clipboard returns
ListPastes == {<<>>, <<"a">>}

\* str.lstrip('\n')
RECURSIVE LStripNL(_)
LStripNL(t) == IF t # <<>> /\ Head(t) = NL THEN LStripNL(Tail(t)) ELSE t

\* what the list view leaves alone
session == <<lines, cy, cx, undo, redo, realtime, saved, calls, ret, term, view, wrap,
             trip, chain, run>>

\* Shellpad.__init__ and run: the notebook is loaded, the first note selected
InitList ==
    /\ NoSession
    /\ \E file \in StoreFiles :
          /\ nb = Load(file).notes
          /\ store = Load(file).file
    /\ selected = 0
    /\ copied = <<>>
    /\ trip = NoTrip

\* the notebook is replaced by notes and saved
Saved(notes) == nb' = notes /\ store' = Save(notes)

\* self.nb.notes[self.selected] raises IndexError
Crash == pc' = "crashed" /\ UNCHANGED <<nb, store, selected, copied, session>>

\* the handler returns without a change
Return == UNCHANGED <<pc, nb, store, selected, copied, session>>

\* k == ord('q')
ListQuit ==
    /\ pc = "list"
    /\ pc' = "quit"
    /\ UNCHANGED <<nb, store, selected, copied, session>>

\* k in (ord('j'), KEY_DOWN)
ListDown ==
    /\ pc = "list"
    /\ selected' = (IF nb # <<>> THEN Min(Len(nb) - 1, selected + 1) ELSE 0)
    /\ UNCHANGED <<pc, nb, store, copied, session>>

\* k in (ord('k'), KEY_UP): selected is assigned, then the title of the
\* selected note is read for the status line
ListUp ==
    /\ pc = "list"
    /\ selected' = Max(0, selected - 1)
    /\ pc' = (IF selected' < Len(nb) THEN "list" ELSE "crashed")
    /\ UNCHANGED <<nb, store, copied, session>>

\* k == ord('a'): the prompt returns a title, or nothing
ListAdd ==
    /\ pc = "list"
    /\ \E title \in ListTitles \cup {<<>>} :
          IF title # <<>>
          THEN /\ Len(nb) < MaxNotes
               /\ Saved(Append(nb, Note(title, <<>>)))
               /\ selected' = Len(nb') - 1
               /\ UNCHANGED <<pc, copied, session>>
          ELSE Return

\* k in (ord('o'), 10, 13) and k == ord('O'): open_editor; the edit session
\* or the external editor leaves a body, which is stored and saved
ListOpen ==
    /\ pc = "list"
    /\ IF nb = <<>> THEN Return
       ELSE IF selected >= Len(nb) THEN Crash
       ELSE \E body \in ListBodies :
               /\ Saved([nb EXCEPT ![selected + 1].body = body])
               /\ UNCHANGED <<pc, selected, copied, session>>

\* k == ord('y')
ListCopy ==
    /\ pc = "list"
    /\ IF nb = <<>> THEN Return
       ELSE IF selected >= Len(nb) THEN Crash
       ELSE /\ copied' = << nb[selected + 1] >>
            /\ UNCHANGED <<pc, nb, store, selected, session>>

\* k == ord('p'): the copied note is appended under the name the prompt
\* returns (the default name for a blank one, nothing when cancelled), or
\* else the system clipboard is appended to the body of the selected note
ListPaste ==
    /\ pc = "list"
    /\ IF copied # <<>>
       THEN \/ Return
            \/ \E typed \in ListTitles \cup {<<>>, <<" ">>} :
                  LET name == IF Strip(typed) = <<>>
                              THEN copied[1].title \o <<"_copy1">>
                              ELSE typed
                  IN  /\ Len(nb) < MaxNotes
                      /\ Len(name) <= MaxChars
                      /\ Saved(Append(nb, Note(name, copied[1].body)))
                      /\ selected' = Len(nb') - 1
                      /\ UNCHANGED <<pc, copied, session>>
       ELSE IF nb = <<>> THEN Return
       ELSE \E pasted \in ListPastes :
               IF pasted = <<>> THEN Return
               ELSE IF selected >= Len(nb) THEN Crash
               ELSE LET body == LStripNL(nb[selected + 1].body \o <<NL>> \o pasted)
                    IN  /\ Len(body) <= MaxChars
                        /\ Saved([nb EXCEPT ![selected + 1].body = body])
                        /\ UNCHANGED <<pc, selected, copied, session>>

\* k == ord('Y'): the body of the selected note goes to the system clipboard
ListYank ==
    /\ pc = "list"
    /\ IF nb = <<>> THEN Return
       ELSE IF selected >= Len(nb) THEN Crash
       ELSE Return

\* k == ord('r'): the prompt returns a title, or nothing
ListRename ==
    /\ pc = "list"
    /\ IF nb = <<>> THEN Return
       ELSE \E new \in ListTitles \cup {<<>>} :
               IF new = <<>> THEN Return
               ELSE IF selected >= Len(nb) THEN Crash
               ELSE /\ Saved([nb EXCEPT ![selected + 1].title = new])
                    /\ UNCHANGED <<pc, selected, copied, session>>

\* k == ord('d'): the title is read for the prompt, which is answered by
\* 'y' or not
ListDelete ==
    /\ pc = "list"
    /\ IF nb = <<>> THEN Return
       ELSE IF selected >= Len(nb) THEN Crash
       ELSE \E yes \in BOOLEAN :
               IF yes
               THEN /\ Saved(RemoveAt(nb, selected))
                    /\ selected' = Max(0, Min(selected, Len(nb') - 1))
                    /\ UNCHANGED <<pc, copied, session>>
               ELSE Return

\* the list notes with the elements at 0-based positions i and j exchanged
Swap(notes, i, j) == [notes EXCEPT ![i + 1] = notes[j + 1], ![j + 1] = notes[i + 1]]

\* k == ord('[')
ListMoveUp ==
    /\ pc = "list"
    /\ IF nb # <<>> /\ selected > 0
       THEN IF selected >= Len(nb) THEN Crash
            ELSE /\ Saved(Swap(nb, selected, selected - 1))
                 /\ selected' = selected - 1
                 /\ UNCHANGED <<pc, copied, session>>
       ELSE Return

\* k == ord(']')
ListMoveDown ==
    /\ pc = "list"
    /\ IF nb # <<>> /\ selected < Len(nb) - 1
       THEN /\ Saved(Swap(nb, selected, selected + 1))
            /\ selected' = selected + 1
            /\ UNCHANGED <<pc, copied, session>>
       ELSE Return

\* k == ord('?'): the help screen is shown until a key is pressed
ListHelp == pc = "list" /\ Return

NextList ==
    \/ ListQuit
    \/ ListDown
    \/ ListUp
    \/ ListAdd
    \/ ListOpen
    \/ ListCopy
    \/ ListPaste
    \/ ListYank
    \/ ListRename
    \/ ListDelete
    \/ ListMoveUp
    \/ ListMoveDown
    \/ ListHelp

SpecList == InitList /\ [][NextList]_vars

-----------------------------------------------------------------------------
(* The layout of one line: _logical_to_visual_segments is called with a   *)
(* line of at most MaxText characters and a width of at most MaxWidth.     *)

MaxText == 25
MaxWidth == 10

InitWrap == InitWith(<<>>, FALSE)

CallSegments ==
    /\ \E n \in 0..MaxText, width \in 1..MaxWidth :
          wrap' = [text |-> Rep(n), width |-> width, segs |-> Segments(Rep(n), width)]
    /\ UNCHANGED <<lines, cy, cx, undo, redo, realtime, saved, calls, pc, ret, term, view,
                   nb, store, selected, copied, trip, chain, run>>

NextWrap == CallSegments

SpecWrap == InitWrap /\ [][NextWrap]_vars

-----------------------------------------------------------------------------
(* Properties. *)

MutatingOps == {"insert", "paste", "newline", "backspace", "delete_prev_word"}

\* C1, as claimed: an undo issued immediately after a mutation restores the
\* lines and the cursor (row, col) the buffer had immediately before the
\* mutation, also when the cursor was moved since the last snapshot.
C1_UndoRestoresLinesAndCursor ==
    chain.stage = "mu" =>
        /\ lines = chain.pre.lines
        /\ cy = chain.pre.cy
        /\ cx = chain.pre.cx

\* C1, amended: an undo issued immediately after a mutation that pushed a
\* snapshot restores the lines the buffer had immediately before the
\* mutation, and the cursor recorded in the snapshot that was on top of the
\* undo stack before the mutation.
C1_UndoRestoresLinesAndSnapshotCursor ==
    chain.stage = "mu" =>
        /\ lines = chain.pre.lines
        /\ lines = chain.top.lines
        /\ cy = chain.top.cy
        /\ cx = chain.top.cx

\* C1, witness: an undo directly after a mutation made with the cursor away
\* from where the last snapshot recorded it.
C1_UndoAfterMovedCursor ==
    /\ chain.stage = "mu"
    /\ <<chain.pre.cy, chain.pre.cx>> # <<chain.top.cy, chain.top.cx>>

\* C2: mutation, undo, redo in direct succession leave the lines, the cursor
\* and the undo stack exactly as they were immediately after the mutation.
C2_RedoRestoresPostMutationState ==
    chain.stage = "mur" =>
        /\ lines = chain.post.lines
        /\ cy = chain.post.cy
        /\ cx = chain.post.cx
        /\ undo = chain.postUndo

\* C2, witness: a redo directly after an undo directly after a mutation that
\* changed the buffer.
C2_RedoAfterUndoAfterMutation ==
    /\ chain.stage = "mur"
    /\ chain.post.lines # chain.pre.lines

\* C3, as claimed: after more than UndoCap mutations from the session start,
\* UndoCap undo steps are restorable: the snapshots below the top of the undo
\* stack and the undos already made add up to UndoCap.
C3_CapUndoStepsRestorable ==
    (run.live /\ run.muts > UndoCap) => (Len(undo) - 1) + run.undos = UndoCap

\* C3, amended: after more than UndoCap mutations from the session start,
\* exactly UndoCap - 1 undo steps are restorable: each of the first
\* UndoCap - 1 undos is effective and the next one finds a single snapshot.
C3_CapMinusOneUndoStepsRestorable ==
    (run.live /\ run.muts > UndoCap) => (Len(undo) - 1) + run.undos = UndoCap - 1

\* C3, witness: more than UndoCap mutations, then UndoCap - 1 effective undos,
\* then an undo that did nothing.
C3_HistoryExhausted ==
    /\ run.live
    /\ run.muts > UndoCap
    /\ run.undos = UndoCap - 1
    /\ run.op = "noop"

\* C4: the buffer always has at least one line.
C4_BufferNonEmpty == Len(lines) >= 1

\* C4, witness: a backspace or delete_prev_word has just deleted the last
\* characters of the buffer, leaving a single empty line.
C4_EmptiedByDeletion ==
    /\ chain.op \in {"backspace", "delete_prev_word"}
    /\ chain.acted
    /\ lines = << <<>> >>

\* C5: the cursor is always on a line of the buffer and within it or right
\* after its last character.
C5_CursorInBounds ==
    /\ 0 <= cy
    /\ cy < Len(lines)
    /\ 0 <= cx
    /\ cx <= Len(Line(lines, cy))

\* C5, witness: an undo has restored a buffer with fewer lines than the row
\* the cursor was on.
C5_UndoBelowCursorRow ==
    /\ chain.stage = "mu"
    /\ chain.post.cy >= Len(lines)

\* C6: the undo stack always holds at least 1 and at most UndoCap snapshots.
C6_UndoStackSize == 1 <= Len(undo) /\ Len(undo) <= UndoCap

\* C6, witness: a redo has just put the UndoCap-th snapshot back on the undo
\* stack.
C6_RedoFillsStack == Len(undo) = UndoCap /\ run.op = "redo"

\* this step pushed exactly one snapshot, of the lines and cursor it left,
\* the oldest being dropped from a full stack
Pushed ==
    undo' = (IF Len(undo) = UndoCap THEN Tail(undo) ELSE undo)
                \o <<Snapshot(lines', cy', cx')>>

\* C7, as claimed: every invocation of a mutating operation pushes exactly
\* one snapshot, equal to the lines and cursor it leaves.
C7_EveryInvocationPushes == [][chain'.op \in MutatingOps => Pushed]_vars

\* C7, amended: insert and insert_newline always, and backspace and
\* delete_previous_word unless the cursor is at (0, 0), push exactly one
\* snapshot, equal to the lines and cursor they leave; backspace and
\* delete_previous_word at (0, 0) push nothing and change nothing.
C7_InvocationPushesUnlessAtOrigin ==
    [][chain'.op \in MutatingOps =>
          IF chain'.op \in {"backspace", "delete_prev_word"} /\ cy = 0 /\ cx = 0
          THEN UNCHANGED <<lines, cy, cx, undo, redo>>
          ELSE Pushed]_vars

\* C7, witness: after an earlier mutation, a backspace has found the cursor
\* at (0, 0).
C7_BackspaceAtOrigin ==
    /\ chain.op = "backspace"
    /\ ~chain.acted
    /\ Len(undo) > 1

\* C8: right after a mutation the redo stack is empty, and a redo then does
\* nothing.
C8_MutationClearsRedo ==
    chain.stage = "m" => (redo = <<>> /\ DoRedo(Cur) = Cur)

\* C8, witness: a mutation made while the redo stack held undone snapshots.
C8_MutationAfterUndo == chain.stage = "m" /\ chain.preRedo > 0

\* C9: an undo on a single-entry undo stack and a redo on an empty redo stack
\* change neither lines, cursor nor stacks, make no autosave call and leave
\* the loop running.
C9_PastHistoryIsNoop ==
    [][(\/ chain'.op = "undo" /\ Len(undo) = 1
        \/ chain'.op = "redo" /\ redo = <<>>) =>
          /\ UNCHANGED <<lines, cy, cx, undo, redo, saved, pc>>
          /\ calls' = 0]_vars

\* C9, witness: with real-time save on, an undo has just found a single
\* snapshot on the undo stack.
C9_UndoPastHistory ==
    /\ chain.op = "undo"
    /\ ~chain.acted
    /\ realtime

\* the snapshots of both stacks, the undo stack bottom-up and then the redo
\* stack top-down
RECURSIVE Reverse(_)
Reverse(q) == IF q = <<>> THEN <<>> ELSE Append(Reverse(Tail(q)), Head(q))

Stored(u, r) == u \o Reverse(r)

\* C10: an effective undo moves the top of the undo stack to the top of the
\* redo stack, an effective redo moves it back, and neither changes the
\* snapshots the two stacks hold.
C10_UndoRedoMoveOneSnapshot ==
    [][/\ (chain'.op = "undo" /\ Len(undo) > 1) =>
              (undo' = Front(undo) /\ redo' = Append(redo, Last(undo)))
       /\ (chain'.op = "redo" /\ redo # <<>>) =>
              (redo' = Front(redo) /\ undo' = Append(undo, Last(redo)))
       /\ chain'.op \in {"undo", "redo"} =>
              Stored(undo', redo') = Stored(undo, redo)]_vars

\* C10, witness: an effective redo directly after an effective undo.
C10_RedoAfterUndo ==
    /\ chain.op = "redo"
    /\ chain.acted
    /\ Len(undo) > 1

\* C11: a cursor key changes neither the lines nor the undo stack nor the
\* redo stack, and makes no autosave call.
C11_MovementPushesNothing ==
    [][chain'.op = "move" =>
          /\ UNCHANGED <<lines, undo, redo, saved>>
          /\ calls' = 0]_vars

\* C11, witness: with real-time save on, a cursor key has moved the cursor
\* away from where the top snapshot recorded it, after an earlier mutation.
C11_CursorMoved ==
    /\ chain.op = "move"
    /\ realtime
    /\ Len(undo) > 1
    /\ <<cy, cx>> # <<Last(undo).cy, Last(undo).cx>>

\* C12: a mutation that pushed a snapshot and an effective undo or redo make
\* exactly one autosave call, with the joined lines they leave, when
\* real-time save is on, and none when it is off.
C12_AutosaveGatedByRealtime ==
    [][(chain'.op \in MutatingOps \cup {"undo", "redo"} /\ chain'.acted) =>
          IF realtime
          THEN calls' = 1 /\ saved' = Join(lines')
          ELSE calls' = 0 /\ saved' = saved]_vars

\* C12, witness: with real-time save off, a mutation has left a buffer that
\* differs from the last saved body.
C12_UnsavedMutation ==
    /\ chain.op \in MutatingOps
    /\ chain.acted
    /\ ~realtime
    /\ saved # Join(lines)

\* C13: the loop has ended exactly when the last key was the exit key; the
\* exit step made exactly one autosave call, whatever the real-time flag,
\* with the joined final lines, and returned that same text, which is the
\* body the notebook holds for the note afterwards. Before the exit nothing
\* is returned. (Keys are the values the key read returns; an interrupt
\* raised while the loop waits for a key is outside this model.)
C13_ExitSavesFinalText ==
    /\ (pc = "done") <=> (chain.op = "exit")
    /\ pc = "edit" => ret = NoReturn
    /\ pc = "done" =>
          /\ calls = 1
          /\ saved = Join(lines)
          /\ ret = saved
          /\ nb[1].body = ret

\* C13, witness: a session with real-time save off has ended after a
\* mutation.
C13_ExitWithoutRealtime ==
    /\ pc = "done"
    /\ ~realtime
    /\ Len(undo) > 1
    /\ ret # Join(undo[1].lines)

Least(S) == CHOOSE j \in S : \A k \in S : j <= k

\* C14: delete_prev_word with col > 0 removes from the current line the
\* characters from p up to col and puts the cursor at column p of the same
\* row, where q is the start of the run of spaces that ends before col and
\* p the start of the run of non-spaces that ends before q; every other
\* line stays. On "hello   world" with the cursor at the end it leaves
\* "hello   " and column 8, and on that it leaves the empty line and
\* column 0.
C14_DeletePrevWordSpan ==
    [][(chain'.op = "delete_prev_word" /\ cx > 0) =>
          LET line == lines[cy + 1]
              q == Least({j \in 0..cx : \A i \in (j + 1)..cx : line[i] = " "})
              p == Least({j \in 0..q : \A i \in (j + 1)..q : line[i] # " "})
          IN  /\ lines' = [lines EXCEPT ![cy + 1] =
                               SubSeq(line, 1, p) \o SubSeq(line, cx + 1, Len(line))]
              /\ cy' = cy
              /\ cx' = p
              /\ (line = HelloWorld /\ cx = 13) =>
                    (lines'[cy + 1] = SubSeq(HelloWorld, 1, 8) /\ cx' = 8)
              /\ (line = SubSeq(HelloWorld, 1, 8) /\ cx = 8) =>
                    (lines'[cy + 1] = <<>> /\ cx' = 0)]_vars

\* C14, witness: the second call on "hello   world" has deleted the three
\* spaces together with "hello".
C14_SpacesAndWordDeleted ==
    /\ chain.op = "delete_prev_word"
    /\ chain.acted
    /\ chain.pre = Snapshot(<< SubSeq(HelloWorld, 1, 8) >>, 0, 8)
    /\ lines = << <<>> >>
    /\ cx = 0

\* C15: backspace with col > 0 removes the character at col - 1 of the
\* current line and decrements col; with col = 0 and row > 0 it replaces
\* lines row - 1 and row by their concatenation and puts the cursor at
\* (row - 1, old length of line row - 1); every other line stays.
\* ["abc", "def"] with the cursor at (1, 0) becomes ["abcdef"] with the
\* cursor at (0, 3).
C15_BackspaceRemovesOrMerges ==
    [][chain'.op = "backspace" =>
          /\ cx > 0 =>
                /\ lines' = [lines EXCEPT ![cy + 1] =
                                 SubSeq(@, 1, cx - 1) \o SubSeq(@, cx + 1, Len(@))]
                /\ cy' = cy
                /\ cx' = cx - 1
          /\ (cx = 0 /\ cy > 0) =>
                /\ Len(lines') = Len(lines) - 1
                /\ \A i \in 1..Len(lines') :
                      lines'[i] = IF i < cy THEN lines[i]
                                  ELSE IF i = cy THEN lines[cy] \o lines[cy + 1]
                                  ELSE lines[i + 1]
                /\ cy' = cy - 1
                /\ cx' = Len(lines[cy])
          /\ (lines = Split(AbcDef) /\ cy = 1 /\ cx = 0) =>
                (lines' = << <<"a", "b", "c", "d", "e", "f">> >> /\ cy' = 0 /\ cx' = 3)]_vars

\* C15, witness: backspace at (1, 0) of ["abc", "def"] has merged the two
\* lines.
C15_AbcDefMerged ==
    /\ chain.op = "backspace"
    /\ chain.acted
    /\ chain.pre = Snapshot(Split(AbcDef), 1, 0)
    /\ lines = << <<"a", "b", "c", "d", "e", "f">> >>
    /\ cy = 0
    /\ cx = 3

\* the texts of the segments, side by side
RECURSIVE Concat(_)
Concat(segs) == IF segs = <<>> THEN <<>> ELSE Head(segs).text \o Concat(Tail(segs))

\* C16: for every width W >= 1 a line of length L is laid out in
\* max(1, ceil(L / W)) segments that start at columns 0, W, 2W, ..., each W
\* long except possibly the last, which is not empty when L > 0, and whose
\* texts side by side are the line; an empty line gives one empty segment;
\* W = 10 and L = 25 give segments of lengths 10, 10 and 5.
C16_SegmentsTileTheLine ==
    wrap.width >= 1 =>
       LET W == wrap.width
           L == Len(wrap.text)
           segs == wrap.segs
           n == Max(1, (L + W - 1) \div W)
       IN  /\ Len(segs) = n
           /\ \A k \in 1..n :
                 /\ segs[k].start = (k - 1) * W
                 /\ k < n => Len(segs[k].text) = W
                 /\ Len(segs[k].text) <= W
           /\ L > 0 => segs[n].text # <<>>
           /\ L = 0 => segs = << [text |-> <<>>, start |-> 0] >>
           /\ Concat(segs) = wrap.text
           /\ (W = 10 /\ L = 25) =>
                 [k \in 1..n |-> Len(segs[k].text)] = <<10, 10, 5>>

\* C16, witness: a line of 25 characters has been laid out at width 10.
C16_Line25Width10 ==
    /\ wrap.width = 10
    /\ Len(wrap.text) = 25
    /\ Len(wrap.segs) = 3

\* C19, as claimed: the cursor's visual column is in [0, W - 1] and its row
\* relative to view_top is in [0, H - 1], so that the clamp leaves the
\* screen coordinates as they are.
C19_ClampNeverActs ==
    /\ view.col \in 0..(view.text_w - 1)
    /\ (view.row - view.top) \in 0..(view.text_h - 1)
    /\ view.sy = view.scr_y
    /\ view.sx = view.scr_x

\* the visual rows of the first n lines at width W
RECURSIVE RowsBefore(_, _, _)
RowsBefore(ls, n, W) ==
    IF n = 0 THEN 0
    ELSE RowsBefore(ls, n - 1, W) + Max(1, (Len(ls[n]) + W - 1) \div W)

\* C20: after every draw view_top = max(0, r - (H - 1)), where r, the
\* cursor's visual row, is the number of segments of the earlier lines plus
\* the index of the first segment of the cursor's line whose inclusive
\* range holds the column; view_top <= r <= view_top + H - 1, and the
\* cursor is on the last row of the viewport when r >= H - 1.
C20_ScrollToCursor ==
    LET W == TextW(term[2])
        H == TextH(term[1])
        r == RowsBefore(lines, cy, W) + (IF cx = 0 THEN 0 ELSE (cx - 1) \div W)
    IN  /\ view.row = r
        /\ view.top = Max(0, r - (H - 1))
        /\ view.top <= r
        /\ r <= view.top + H - 1
        /\ r >= H - 1 => (r - view.top = H - 1 /\ view.sy = TextY + H - 1)

\* C20, witness: the picture is scrolled, the cursor being on a wrapped
\* line below the first viewport.
C20_Scrolled ==
    /\ view.top > 0
    /\ view.row = view.top + view.text_h - 1
    /\ cx > view.text_w
    /\ chain.op = "move"

\* a line of the body matches the heading pattern
HasHeadingLine(body) == \E i \in 1..Len(Split(body)) : H1Matches(Split(body)[i])

\* C17, as claimed: loading what was saved gives back the same notes when
\* their titles are not empty and no line of a body matches the heading
\* pattern.
C17_RoundTrip ==
    (/\ trip.stage = "roundtrip"
     /\ \A i \in 1..Len(trip.notes) :
           /\ trip.notes[i].title # <<>>
           /\ ~HasHeadingLine(trip.notes[i].body))
    => nb = trip.notes

\* C17, amended: loading what was saved gives back the same notes when
\* their titles are not empty, hold no line break and neither start nor end
\* with whitespace, and their bodies do not end with whitespace and hold no
\* line that matches the heading pattern.
C17_RoundTripOfStrippedNotes ==
    (/\ trip.stage = "roundtrip"
     /\ \A i \in 1..Len(trip.notes) :
           /\ trip.notes[i].title # <<>>
           /\ Strip(trip.notes[i].title) = trip.notes[i].title
           /\ FirstNL(trip.notes[i].title, 1) = 0
           /\ RStrip(trip.notes[i].body) = trip.notes[i].body
           /\ ~HasHeadingLine(trip.notes[i].body))
    => nb = trip.notes

\* C17, witness: two notes have made the round trip, one with a body that
\* starts with an empty line and one whose title is "#".
C17_TwoNotesRoundTrip ==
    /\ trip.stage = "roundtrip"
    /\ Len(trip.notes) = 2
    /\ trip.notes[1] = Note(<<"a">>, <<NL, "a">>)
    /\ trip.notes[2] = Note(<<"#">>, <<"a">>)
    /\ nb = trip.notes

\* C18, as claimed: a load of a file that is missing, empty or holds no
\* note leaves exactly the welcome note in the notebook and writes it to
\* the file, and no load leaves the notebook without a note.
C18_LoadAlwaysSeeds ==
    trip.stage = "loaded" =>
       /\ Len(nb) >= 1
       /\ (trip.had = Absent \/ Parse(trip.had) = <<>>) =>
             (nb = <<WelcomeNote>> /\ store = Save(nb))

\* the number of line breaks of the text t
Breaks(t) == Cardinality({i \in 1..Len(t) : t[i] = NL})

\* the position of the cursor (y, x) in the joined lines ls
Offset(ls, y, x) == Len(Join(SubSeq(ls, 1, y))) + (IF y > 0 THEN 1 ELSE 0) + x

\* C21, as claimed: a paste of a text with k >= 1 line breaks, the last
\* character of the text included, makes the buffer k lines longer, keeps
\* the text before the cursor at the start of the original row, puts the
\* text after the cursor at the end of row + k and the cursor at
\* (row + k, length of the last segment of the text); the joined buffer is
\* the old joined buffer with the text spliced in at the cursor.
C21_InsertSplitsAtEveryBreak ==
    [][(chain'.op = "paste" /\ Breaks(chain'.text) >= 1) =>
          LET t == chain'.text
              k == Breaks(t)
              line == lines[cy + 1]
              old == Join(lines)
              at == Offset(lines, cy, cx)
          IN  /\ Len(lines') = Len(lines) + k
              /\ cy' = cy + k
              /\ cx' = Len(Last(Split(t)))
              /\ SubSeq(lines'[cy + 1], 1, cx) = SubSeq(line, 1, cx)
              /\ SubSeq(lines'[cy' + 1], cx' + 1, Len(lines'[cy' + 1]))
                    = SubSeq(line, cx + 1, Len(line))
              /\ Join(lines') = SubSeq(old, 1, at) \o t \o SubSeq(old, at + 1, Len(old))]_vars

\* C22: Enter at (row, col) replaces line row by its part before col and
\* its part from col on, leaves every other line as it is and puts the
\* cursor at (row + 1, 0); a backspace that directly follows restores the
\* lines and the cursor that held before the Enter.
C22_NewlineSplitsBackspaceRestores ==
    [][/\ chain'.op = "newline" =>
             LET line == lines[cy + 1]
             IN  /\ lines' = SubSeq(lines, 1, cy)
                              \o << SubSeq(line, 1, cx), SubSeq(line, cx + 1, Len(line)) >>
                              \o SubSeq(lines, cy + 2, Len(lines))
                 /\ Len(lines') = Len(lines) + 1
                 /\ cy' = cy + 1
                 /\ cx' = 0
       /\ (chain.op = "newline" /\ chain'.op = "backspace") =>
             /\ lines' = chain.pre.lines
             /\ cy' = chain.pre.cy
             /\ cx' = chain.pre.cx]_vars

\* C22, witness: a line was split inside its text and the backspace that
\* followed, with the cursor left where the Enter had put it, has merged it
\* again.
C22_SplitInsideLineUndone ==
    /\ chain.op = "backspace"
    /\ chain.acted
    /\ chain.pre.cx = 0
    /\ Len(undo) = 3
    /\ undo[2] = chain.pre
    /\ Len(undo[2].lines) = Len(lines) + 1
    /\ undo[1].lines = lines
    /\ cx > 0
    /\ cx < Len(lines[cy + 1])

\* C23: the left arrow decrements col when col > 0, moves to the end of
\* the previous row at col 0 of a row > 0, and does nothing at (0, 0); the
\* right arrow increments col before the end of the line, moves to
\* (row + 1, 0) at the end of a row that is not the last, and does nothing
\* at the end of the last line; neither changes the lines. Left and then
\* right returns to the starting position from every position except
\* (0, 0), right and then left from every position except the end of the
\* last line.
C23_LeftRightWalkTheBuffer ==
    [][/\ chain'.op \in {"left", "right"} => lines' = lines
       /\ chain'.op = "left" =>
             /\ cx > 0 => (cy' = cy /\ cx' = cx - 1)
             /\ (cx = 0 /\ cy > 0) => (cy' = cy - 1 /\ cx' = Len(lines[cy]))
             /\ (cx = 0 /\ cy = 0) => (cy' = 0 /\ cx' = 0)
       /\ chain'.op = "right" =>
             /\ cx < Len(lines[cy + 1]) => (cy' = cy /\ cx' = cx + 1)
             /\ (cx = Len(lines[cy + 1]) /\ cy < Len(lines) - 1) => (cy' = cy + 1 /\ cx' = 0)
             /\ (cx = Len(lines[cy + 1]) /\ cy = Len(lines) - 1) => (cy' = cy /\ cx' = cx)
       /\ (/\ chain.op = "left"
           /\ chain'.op = "right"
           /\ <<chain.pre.cy, chain.pre.cx>> # <<0, 0>>)
          => <<cy', cx'>> = <<chain.pre.cy, chain.pre.cx>>
       /\ (/\ chain.op = "right"
           /\ chain'.op = "left"
           /\ <<chain.pre.cy, chain.pre.cx>> # <<Len(lines) - 1, Len(lines[Len(lines)])>>)
          => <<cy', cx'>> = <<chain.pre.cy, chain.pre.cx>>]_vars

\* C23, witness: the right arrow, pressed at the end of a row that is not
\* the last, has moved the cursor to the start of the next row, after a
\* left arrow had moved it up to that end.
C23_WrappedBackToNextRow ==
    /\ chain.op = "right"
    /\ chain.pre.cy = cy - 1
    /\ chain.pre.cx = Len(lines[cy])
    /\ chain.pre.cx > 0
    /\ cx = 0

\* C24: in every state with the cursor at column 0, delete_prev_word and
\* backspace leave the same lines, cursor, undo stack, redo stack, saved
\* text and number of autosave calls; at (0, 0) both leave the editor as it
\* is.
C24_DeleteWordAtColumn0IsBackspace ==
    (pc = "edit" /\ cx = 0) =>
       /\ DeletePrevWord(Cur) = Backspace(Cur)
       /\ cy = 0 => (DeletePrevWord(Cur) = Cur /\ Backspace(Cur) = Cur)
       /\ cy > 0 => DeletePrevWord(Cur).lines = SubSeq(lines, 1, cy - 1)
                                                 \o << lines[cy] \o lines[cy + 1] >>
                                                 \o SubSeq(lines, cy + 2, Len(lines))

\* C24, witness: delete_prev_word at column 0 of a row below the first has
\* merged two lines and emptied a redo stack that held a snapshot.
C24_MergedByDeleteWord ==
    /\ chain.op = "delete_prev_word"
    /\ chain.acted
    /\ chain.pre.cx = 0
    /\ chain.pre.cy > 0
    /\ chain.preRedo > 0
    /\ redo = <<>>
    /\ Len(lines) = Len(chain.pre.lines) - 1

\* C25: while the session waits for a key, the lines of the top entry of
\* the undo stack are the lines of the buffer.
C25_CurrentStateOnTop ==
    pc = "edit" => (undo # <<>> /\ Last(undo).lines = lines)

\* C25, witness: the session waits after an undo that restored an earlier
\* buffer, followed by a cursor key.
C25_OnTopAfterUndoAndMove ==
    /\ pc = "edit"
    /\ chain.op = "move"
    /\ redo # <<>>
    /\ Last(redo).lines # lines
    /\ <<cy, cx>> # <<Last(undo).cy, Last(undo).cx>>

\* C26, as claimed: no list-view key makes the program index the note list
\* out of range, also when the notebook is empty, and while the notebook
\* holds a note 0 <= selected < len(notes).
C26_ListKeysNeverFail ==
    /\ pc # "crashed"
    /\ nb # <<>> => (0 <= selected /\ selected < Len(nb))

====
